---- MODULE Spec2Model ----
(***************************************************************************)
(* stagehand-sdl2: the SDL2 backend of the stagehand scene engine.         *)
(*                                                                         *)
(* The model covers the per-frame path of SDLApp (processed_events,        *)
(* update, draw), the router SDLStorage::get_ticket_with_key and the       *)
(* axis normalisation translate_axis.  The stagehand crate itself          *)
(* (InputMap, ResourceStorage, Stage, gameloop) is not part of the         *)
(* sources; its operations are modelled from the written contract.         *)
(*                                                                         *)
(* f32 values are modelled as exact fractions <<numerator, denominator>>   *)
(* with a positive denominator.  Every comparison the code makes is        *)
(* against a threshold that no quotient n/32767 or n/32768 comes within    *)
(* rounding distance of, so the exact fraction decides it as f32 does.     *)
(***************************************************************************)
EXTENDS Integers, Sequences, FiniteSets, TLC

VARIABLES
    pc,            \* position of the embedding program / gameloop
    users,         \* InputMap.users: per user, the list of actions
    commands,      \* InputMap.commands: flat list of (user, action, bindings)
    inputSet,      \* InputMap change flag: set() raises it, updated() clears it
    inputBorrow,   \* RefCell state of the shared InputMap seen by the frame
    nControllers,  \* length of SDLApp.controllers
    storage,       \* SDLStorage: one ResourceStorage per kind
    issued,        \* <<kind, ticket>> pairs handed out by get_ticket_with_key
    lastCall,      \* the last get_ticket_with_key call and what it returned
    hasScene,      \* the stage holds a scene
    music,         \* sdl2::mixer::Music::is_playing()
    info,          \* Update.info, the ambient info list
    given,         \* <<kind, key, ticket>> of every ticket take_ticket returned
    axisCalls,     \* the last two translate_axis calls: argument and result
    step,          \* the frame step that ran last
    polled,        \* events the last processed_events drained from the pump
    snap,          \* device snapshot taken by the last processed_events
    passed,        \* update_action calls made by the last processed_events
    before,        \* InputMap.users as the last processed_events found it
    instrs,        \* instructions the stage returned to the last update / draw
    held,          \* resources a collaborator held borrowed during that step
    backendOk,     \* whether the mixer / font backend calls of that step succeed
    executed,      \* backend play / render calls made by that step, in order
    presented,     \* the last draw reached canvas.present()
    log,           \* messages logged by the last frame step
    result         \* what the last processed_events returned

inputVars == <<users, commands, inputSet>>
storeVars == <<storage, issued, given, lastCall>>
stepVars == <<step, polled, snap, passed, before, instrs, held, backendOk,
              executed, presented, log, result, axisCalls>>

vars == <<pc, users, commands, inputSet, inputBorrow, nControllers, storage,
          issued, given, lastCall, hasScene, music, info, step, polled, snap,
          passed, before, instrs, held, backendOk, executed, presented, log,
          result, axisCalls>>

(***************************************************************************)
(* Bounds of the model.                                                    *)
(***************************************************************************)
MaxAlts == 2
MaxControllers == 2
MaxEvents == 2
MaxSlots == 2
MaxBatch == 2

MouseButtons == {"Left"}
Axes == {"LeftX", "LeftY"}
MousePoints == {<<3, 4>>}
ActionNames == {"Forward", "Look"}

(***************************************************************************)
(* Program constants.                                                      *)
(***************************************************************************)
SDL_JOYSTICK_AXIS_MAX == 32767
SDL_JOYSTICK_AXIS_MIN == -32768
\* f32::EPSILON = 2^-23, kept as its reciprocal
EPSILON_INV == 8388608
\* the literal 0.1 of the any-device arms, kept as its reciprocal
DEADZONE_INV == 10

(***************************************************************************)
(* f32 as exact fractions.                                                 *)
(***************************************************************************)
Abs(n) == IF n < 0 THEN -n ELSE n

F32(n) == <<n, 1>>

\* a / b for a float quotient with b # 0, sign carried by the numerator
F32Div(a, b) == IF b < 0 THEN <<-a, -b>> ELSE <<a, b>>

F32Neg(v) == <<-v[1], v[2]>>

F32IsZero(v) == v[1] = 0

\* v.abs() >= 1/inv, computed without leaving 32-bit integers
AbsGe(v, inv) == Abs(v[1]) >= (v[2] + inv - 1) \div inv

\* both halves divided by the positive limit
translate_axisOneDivisor(axis) == F32Div(axis, SDL_JOYSTICK_AXIS_MAX)

translate_axis(axis) ==
    IF axis >= 0
    THEN F32Div(axis, SDL_JOYSTICK_AXIS_MAX)
    ELSE F32Neg(F32Div(axis, SDL_JOYSTICK_AXIS_MIN))

(***************************************************************************)
(* ActionType, SDLCommand, SDLGamepadFeature.                              *)
(***************************************************************************)
Digital(s) == [t |-> "Digital", state |-> s]
Analog(x, y) == [t |-> "Analog", x |-> x, y |-> y]
Axis(v) == [t |-> "Axis", v |-> v]

Shapes == {Digital("Up"), Analog(F32(0), F32(0)), Axis(F32(0))}

Key(list) == [kind |-> "Key", list |-> list]
MouseButton(list) == [kind |-> "MouseButton", list |-> list]
MousePosition == [kind |-> "MousePosition"]
\* controller is an Option<usize>: {} is None, {i} is Some(i)
Gamepad(feature, controller) ==
    [kind |-> "Gamepad", feature |-> feature, controller |-> controller]
FButton(list) == [f |-> "Button", list |-> list]
FAxis(a) == [f |-> "Axis", axis |-> a]
FStick(x, y) == [f |-> "Stick", x |-> x, y |-> y]

(***************************************************************************)
(* Device snapshots: keyboard_state, mouse_state and the live state of     *)
(* each opened controller.                                                 *)
(***************************************************************************)
Pad(buttons, x, y) ==
    [buttons |-> buttons, axis |-> [a \in Axes |-> IF a = "LeftX" THEN x ELSE y]]

PadStates ==
    { Pad({}, 0, 0), Pad({"A"}, 50, 32767), Pad({"A", "B"}, -32768, 50) }

KeyStates == { {}, {"W"}, {"Up"}, {"Up", "LShift"} }

SeqsUpTo(S, n) == UNION { [1..k -> S] : k \in 0..n }

\* pointer positions of the resolver's snapshots: the origin and one other
PointerPoints == MousePoints \cup {<<0, 0>>}

Snapshots(n) ==
    [ keys : KeyStates,
      mouse : SUBSET MouseButtons,
      pos : PointerPoints,
      pads : [1..n -> PadStates] ]

NoSnapshot == [keys |-> {}, mouse |-> {}, pos |-> <<0, 0>>, pads |-> <<>>]

(***************************************************************************)
(* processed_events: one alternative of one action.  An arm yields         *)
(*   brk   - the arm executed break 'commands                              *)
(*   set   - the arm assigned active                                       *)
(*   value - the value assigned                                            *)
(*   panic - the arm indexed self.controllers out of bounds                *)
(***************************************************************************)
ArmResult(brk, set, value, panic) ==
    [brk |-> brk, set |-> set, value |-> value, panic |-> panic]

Rejected == ArmResult(FALSE, FALSE, Digital("Up"), FALSE)
Accepted(v) == ArmResult(TRUE, TRUE, v, FALSE)

\* the key arm accepting as soon as one of its scancodes is pressed
KeyArmAnyKey(c, s) ==
    IF Len(c) > 0 /\ \A i \in 1..Len(c) : c[i] \notin s.keys
    THEN ArmResult(FALSE, FALSE, Digital("Up"), FALSE)
    ELSE ArmResult(TRUE, TRUE, Digital("Down"), FALSE)

\* the key arm without its break 'commands: the loop would go on to the
\* later alternatives
KeyArmNoBreak(c, s) ==
    IF \E i \in 1..Len(c) : c[i] \notin s.keys
    THEN ArmResult(FALSE, FALSE, Digital("Up"), FALSE)
    ELSE ArmResult(FALSE, TRUE, Digital("Down"), FALSE)

\* the key arm refusing an empty list of scancodes
KeyArmNonEmpty(c, s) ==
    IF Len(c) = 0 \/ \E i \in 1..Len(c) : c[i] \notin s.keys
    THEN Rejected
    ELSE Accepted(Digital("Down"))

\* for key in c.iter() { if !pressed { break 'key } } ... break 'commands
KeyArm(c, s) ==
    IF \E i \in 1..Len(c) : c[i] \notin s.keys
    THEN Rejected
    ELSE Accepted(Digital("Down"))

MouseButtonArm(b, s) ==
    IF \E i \in 1..Len(b) : b[i] \notin s.mouse
    THEN Rejected
    ELSE Accepted(Digital("Down"))

\* the mouse-position arm ending the resolution like the key arm does
MousePositionArmBreak(s) ==
    ArmResult(TRUE, TRUE, Analog(F32(s.pos[1]), F32(s.pos[2])), FALSE)

MousePositionArm(s) ==
    ArmResult(FALSE, TRUE, Analog(F32(s.pos[1]), F32(s.pos[2])), FALSE)

\* Some(index), Button: the loop body's `continue` resumes the same loop, so
\* the loop always runs to its end and falls through to the assignment.
RECURSIVE SomeButtonLoop(_, _, _)
SomeButtonLoop(buttons, controller, i) ==
    IF i > Len(buttons)
    THEN TRUE
    ELSE IF buttons[i] \notin controller.buttons
         THEN SomeButtonLoop(buttons, controller, i + 1)
         ELSE SomeButtonLoop(buttons, controller, i + 1)

SomeArm(feature, controller) ==
    CASE feature.f = "Button" ->
            IF SomeButtonLoop(feature.list, controller, 1)
            THEN Accepted(Digital("Down"))
            ELSE Rejected
      [] feature.f = "Axis" ->
            LET value == translate_axis(controller.axis[feature.axis])
            IN  IF AbsGe(value, EPSILON_INV)
                THEN Accepted(Axis(value))
                ELSE Rejected
      [] feature.f = "Stick" ->
            LET x == translate_axis(controller.axis[feature.x])
                y == translate_axis(controller.axis[feature.y])
            IN  IF AbsGe(x, EPSILON_INV) \/ AbsGe(y, EPSILON_INV)
                THEN Accepted(Analog(x, y))
                ELSE Rejected

\* None: one controller of the 'controller loop
NoneArmOn(feature, controller) ==
    CASE feature.f = "Button" ->
            IF \E i \in 1..Len(feature.list) :
                    feature.list[i] \notin controller.buttons
            THEN Rejected
            ELSE Accepted(Digital("Down"))
      [] feature.f = "Axis" ->
            LET value == translate_axis(controller.axis[feature.axis])
            IN  IF AbsGe(value, DEADZONE_INV)
                THEN Accepted(Axis(value))
                ELSE Rejected
      [] feature.f = "Stick" ->
            LET a_x == translate_axis(controller.axis[feature.x])
                a_y == translate_axis(controller.axis[feature.y])
            IN  IF AbsGe(a_x, DEADZONE_INV) \/ AbsGe(a_y, DEADZONE_INV)
                THEN Accepted(Analog(a_x, a_y))
                ELSE Rejected

\* the search going on after a match: the last satisfying controller decides
RECURSIVE NoneArmLast(_, _, _)
NoneArmLast(feature, pads, k) ==
    IF k > Len(pads)
    THEN Rejected
    ELSE LET later == NoneArmLast(feature, pads, k + 1)
         IN  IF later.brk THEN later ELSE NoneArmOn(feature, pads[k])

\* 'controller: for controller in self.controllers.iter()
RECURSIVE NoneArm(_, _, _)
NoneArm(feature, pads, k) ==
    IF k > Len(pads)
    THEN Rejected
    ELSE LET r == NoneArmOn(feature, pads[k])
         IN  IF r.brk THEN r ELSE NoneArm(feature, pads, k + 1)

GamepadArm(cmd, s) ==
    IF cmd.controller = {}
    THEN NoneArm(cmd.feature, s.pads, 1)
    ELSE LET index == CHOOSE i \in cmd.controller : TRUE
         IN  IF index >= Len(s.pads)
             THEN ArmResult(FALSE, FALSE, Digital("Up"), TRUE)
             ELSE SomeArm(cmd.feature, s.pads[index + 1])

Arm(cmd, s) ==
    CASE cmd.kind = "Key" -> KeyArm(cmd.list, s)
      [] cmd.kind = "MouseButton" -> MouseButtonArm(cmd.list, s)
      [] cmd.kind = "MousePosition" -> MousePositionArm(s)
      [] cmd.kind = "Gamepad" -> GamepadArm(cmd, s)

(***************************************************************************)
(* processed_events: the 'commands loop of one flattened entry.            *)
(***************************************************************************)
RECURSIVE CommandsLoop(_, _, _, _)
CommandsLoop(cmds, i, active, s) ==
    IF i > Len(cmds)
    THEN [active |-> active, panic |-> FALSE]
    ELSE LET r == Arm(cmds[i], s)
         IN  IF r.panic THEN [active |-> active, panic |-> TRUE]
             ELSE IF r.brk THEN [active |-> r.value, panic |-> FALSE]
             ELSE CommandsLoop(cmds, i + 1,
                               IF r.set THEN r.value ELSE active, s)

Resolve(cmds, s) == CommandsLoop(cmds, 1, Digital("Up"), s)

(***************************************************************************)
(* InputMap (stagehand crate).                                             *)
(***************************************************************************)
NewAction(name, shape) == [name |-> name, shape |-> shape, value |-> shape]

Entry(user, action, cmds) ==
    [user_index |-> user, action_index |-> action, commands |-> cmds]

\* User::update_action on the action list of one user; indices are 0-based
update_action(actions, index, value) ==
    IF index >= Len(actions)
    THEN [ok |-> FALSE, actions |-> actions]
    ELSE [ok |-> TRUE,
          actions |-> [actions EXCEPT ![index + 1].value = value]]

(***************************************************************************)
(* processed_events: the loop over input.commands.                         *)
(***************************************************************************)
\* the loop giving up on the frame's remaining entries at the first failing
\* update_action
RECURSIVE EntriesLoopStopOnError(_, _, _)
EntriesLoopStopOnError(k, s, acc) ==
    IF k > Len(commands)
    THEN acc
    ELSE LET e == commands[k]
             r == Resolve(e.commands, s)
         IN  IF r.panic \/ e.user_index >= Len(acc.users)
             THEN [acc EXCEPT !.panic = TRUE]
             ELSE LET u == update_action(acc.users[e.user_index + 1],
                                         e.action_index, r.active)
                      call == [user |-> e.user_index,
                               action |-> e.action_index,
                               value |-> r.active, ok |-> u.ok]
                      next == [users |-> [acc.users EXCEPT ![e.user_index + 1] = u.actions],
                               passed |-> Append(acc.passed, call),
                               log |-> IF u.ok THEN acc.log
                                       ELSE Append(acc.log, "ActionIndexOutOfBounds"),
                               panic |-> FALSE]
                  IN  IF u.ok THEN EntriesLoopStopOnError(k + 1, s, next) ELSE next

\* the loop calling update_action only for the entries whose value is not the
\* untouched candidate
RECURSIVE EntriesLoopSkipUp(_, _, _)
EntriesLoopSkipUp(k, s, acc) ==
    IF k > Len(commands)
    THEN acc
    ELSE LET e == commands[k]
             r == Resolve(e.commands, s)
         IN  IF r.panic \/ e.user_index >= Len(acc.users)
             THEN [acc EXCEPT !.panic = TRUE]
             ELSE IF r.active = Digital("Up")
             THEN EntriesLoopSkipUp(k + 1, s, acc)
             ELSE LET u == update_action(acc.users[e.user_index + 1],
                                         e.action_index, r.active)
                      call == [user |-> e.user_index,
                               action |-> e.action_index,
                               value |-> r.active, ok |-> u.ok]
                  IN  EntriesLoopSkipUp(k + 1, s,
                        [users |-> [acc.users EXCEPT ![e.user_index + 1] = u.actions],
                         passed |-> Append(acc.passed, call),
                         log |-> IF u.ok THEN acc.log
                                 ELSE Append(acc.log, "ActionIndexOutOfBounds"),
                         panic |-> FALSE])

\* the loop starting each entry's candidate from the value the action holds
RECURSIVE EntriesLoopKeepValue(_, _, _)
EntriesLoopKeepValue(k, s, acc) ==
    IF k > Len(commands)
    THEN acc
    ELSE LET e == commands[k]
             held_value ==
                 IF /\ e.user_index < Len(acc.users)
                    /\ e.action_index < Len(acc.users[e.user_index + 1])
                 THEN acc.users[e.user_index + 1][e.action_index + 1].value
                 ELSE Digital("Up")
             r == CommandsLoop(e.commands, 1, held_value, s)
         IN  IF r.panic \/ e.user_index >= Len(acc.users)
             THEN [acc EXCEPT !.panic = TRUE]
             ELSE LET u == update_action(acc.users[e.user_index + 1],
                                         e.action_index, r.active)
                      call == [user |-> e.user_index,
                               action |-> e.action_index,
                               value |-> r.active, ok |-> u.ok]
                  IN  EntriesLoopKeepValue(k + 1, s,
                        [users |-> [acc.users EXCEPT ![e.user_index + 1] = u.actions],
                         passed |-> Append(acc.passed, call),
                         log |-> IF u.ok THEN acc.log
                                 ELSE Append(acc.log, "ActionIndexOutOfBounds"),
                         panic |-> FALSE])

RECURSIVE EntriesLoop(_, _, _)
EntriesLoop(k, s, acc) ==
    IF k > Len(commands)
    THEN acc
    ELSE LET e == commands[k]
             r == Resolve(e.commands, s)
         IN  IF r.panic \/ e.user_index >= Len(acc.users)
             THEN [acc EXCEPT !.panic = TRUE]
             ELSE LET u == update_action(acc.users[e.user_index + 1],
                                         e.action_index, r.active)
                      call == [user |-> e.user_index,
                               action |-> e.action_index,
                               value |-> r.active, ok |-> u.ok]
                  IN  EntriesLoop(k + 1, s,
                        [users |-> [acc.users EXCEPT ![e.user_index + 1] = u.actions],
                         passed |-> Append(acc.passed, call),
                         log |-> IF u.ok THEN acc.log
                                 ELSE Append(acc.log, "ActionIndexOutOfBounds"),
                         panic |-> FALSE])

(***************************************************************************)
(* ResourceStorage (stagehand crate): slots in ticket order, each          *)
(* remembering its key and whether its value has been loaded.              *)
(***************************************************************************)
Kinds == {"Texture", "Font", "Music", "Sound"}
\* StorageType has more variants than the four stores of SDLStorage
StorageTypes == Kinds \cup {"Other"}
ResourceKeys == {"a", "b"}

EmptyStore == [slots |-> <<>>, locked |-> FALSE]

Ok(t) == [ok |-> TRUE, ticket |-> t]
Err(e) == [ok |-> FALSE, err |-> e]

HasKey(store, key) == \E i \in 1..Len(store.slots) : store.slots[i].key = key

\* tickets are 0-based slot indices
TicketOf(store, key) ==
    (CHOOSE i \in 1..Len(store.slots) : store.slots[i].key = key) - 1

TotalSlots(st) == Len(st["Texture"].slots) + Len(st["Font"].slots)
                    + Len(st["Music"].slots) + Len(st["Sound"].slots)

\* a take_ticket that reserves a new slot on every call
take_ticketAlwaysNew(store, key) ==
    IF store.locked
    THEN [store |-> store, res |-> Err("AlreadyLocked")]
    ELSE [store |-> [store EXCEPT !.slots =
                        Append(@, [key |-> key, loaded |-> FALSE])],
          res |-> Ok(Len(store.slots))]

take_ticket(store, key) ==
    IF store.locked
    THEN [store |-> store, res |-> Err("AlreadyLocked")]
    ELSE IF HasKey(store, key)
    THEN [store |-> store, res |-> Ok(TicketOf(store, key))]
    ELSE [store |-> [store EXCEPT !.slots =
                        Append(@, [key |-> key, loaded |-> FALSE])],
          res |-> Ok(Len(store.slots))]

\* a load that puts the slot of a new key in front of the others
loadInFront(store, key) ==
    IF HasKey(store, key)
    THEN [store EXCEPT !.slots[TicketOf(store, key) + 1].loaded = TRUE]
    ELSE [store EXCEPT !.slots = <<[key |-> key, loaded |-> TRUE]>> \o @]

\* load with a loader that succeeded
load(store, key) ==
    IF HasKey(store, key)
    THEN [store EXCEPT !.slots[TicketOf(store, key) + 1].loaded = TRUE]
    ELSE [store EXCEPT !.slots = Append(@, [key |-> key, loaded |-> TRUE])]

lock(store) == [store EXCEPT !.locked = TRUE]

get_by_ticket(store, ticket) ==
    IF ticket >= Len(store.slots)
    THEN Err("TicketNotFound")
    ELSE IF ~store.slots[ticket + 1].loaded
    THEN Err("ResourceNotLoaded")
    ELSE [ok |-> TRUE, key |-> store.slots[ticket + 1].key]

(***************************************************************************)
(* SDLStorage::get_ticket_with_key                                         *)
(***************************************************************************)
\* a router that hands out ticket 0 when the store refuses
get_ticket_with_keyDefaultTicket(st, storage_key, resource_key) ==
    LET orDefault(r) == IF r.ok THEN r ELSE Ok(0)
    IN  CASE storage_key = "Texture" ->
                LET r == take_ticket(st["Texture"], resource_key)
                IN  [storage |-> [st EXCEPT !["Texture"] = r.store],
                     res |-> orDefault(r.res)]
          [] storage_key = "Font" ->
                LET r == take_ticket(st["Font"], resource_key)
                IN  [storage |-> [st EXCEPT !["Font"] = r.store],
                     res |-> orDefault(r.res)]
          [] storage_key = "Music" ->
                LET r == take_ticket(st["Music"], resource_key)
                IN  [storage |-> [st EXCEPT !["Music"] = r.store],
                     res |-> orDefault(r.res)]
          [] storage_key = "Sound" ->
                LET r == take_ticket(st["Sound"], resource_key)
                IN  [storage |-> [st EXCEPT !["Sound"] = r.store],
                     res |-> orDefault(r.res)]
          [] OTHER ->
                [storage |-> st, res |-> Err(<<"UnknownStorage", storage_key>>)]

\* the Font arm asking the texture store
get_ticket_with_keyFontAsTexture(st, storage_key, resource_key) ==
    CASE storage_key = "Texture" ->
            LET r == take_ticket(st["Texture"], resource_key)
            IN  [storage |-> [st EXCEPT !["Texture"] = r.store], res |-> r.res]
      [] storage_key = "Font" ->
            LET r == take_ticket(st["Texture"], resource_key)
            IN  [storage |-> [st EXCEPT !["Texture"] = r.store], res |-> r.res]
      [] storage_key = "Music" ->
            LET r == take_ticket(st["Music"], resource_key)
            IN  [storage |-> [st EXCEPT !["Music"] = r.store], res |-> r.res]
      [] storage_key = "Sound" ->
            LET r == take_ticket(st["Sound"], resource_key)
            IN  [storage |-> [st EXCEPT !["Sound"] = r.store], res |-> r.res]
      [] OTHER ->
            [storage |-> st, res |-> Err(<<"UnknownStorage", storage_key>>)]

get_ticket_with_key(st, storage_key, resource_key) ==
    CASE storage_key = "Texture" ->
            LET r == take_ticket(st["Texture"], resource_key)
            IN  [storage |-> [st EXCEPT !["Texture"] = r.store], res |-> r.res]
      [] storage_key = "Font" ->
            LET r == take_ticket(st["Font"], resource_key)
            IN  [storage |-> [st EXCEPT !["Font"] = r.store], res |-> r.res]
      [] storage_key = "Music" ->
            LET r == take_ticket(st["Music"], resource_key)
            IN  [storage |-> [st EXCEPT !["Music"] = r.store], res |-> r.res]
      [] storage_key = "Sound" ->
            LET r == take_ticket(st["Sound"], resource_key)
            IN  [storage |-> [st EXCEPT !["Sound"] = r.store], res |-> r.res]
      [] OTHER ->
            [storage |-> st, res |-> Err(<<"UnknownStorage", storage_key>>)]

NoCall == [kind |-> "none", key |-> "none", res |-> Err("none")]

\* a scene's initialize asking the directory for a ticket
GetTicketWithKey(Types, Keys) ==
    /\ pc = "setup"
    /\ \E kind \in Types, key \in Keys :
         LET r == get_ticket_with_key(storage, kind, key)
         IN  /\ TotalSlots(r.storage) <= MaxSlots
             /\ storage' = r.storage
             /\ lastCall' = [kind |-> kind, key |-> key, res |-> r.res]
             /\ issued' = IF r.res.ok
                          THEN issued \cup {<<kind, r.res.ticket>>}
                          ELSE issued
             /\ given' = IF r.res.ok
                         THEN given \cup {<<kind, key, r.res.ticket>>}
                         ELSE given
    /\ UNCHANGED <<pc, inputVars, inputBorrow, nControllers, hasScene, music,
                   info, stepVars>>

\* storage.<kind>.load(key, args) in main; a failing loader changes nothing.
\* On a locked store a load of a key that was never registered may be
\* refused like a failing load or may still add its slot at the end.
Load(Keys) ==
    /\ pc = "setup"
    /\ \E kind \in Kinds, key \in Keys, loaded \in BOOLEAN :
         /\ LET st == IF loaded
                      THEN [storage EXCEPT ![kind] = load(@, key)]
                      ELSE storage
            IN  /\ TotalSlots(st) <= MaxSlots
                /\ storage' = st
    /\ lastCall' = NoCall
    /\ UNCHANGED <<pc, inputVars, inputBorrow, nControllers, issued, given,
                   hasScene, music, info, stepVars>>

Lock ==
    /\ pc = "setup"
    /\ \E kind \in Kinds : storage' = [storage EXCEPT ![kind] = lock(@)]
    /\ lastCall' = NoCall
    /\ UNCHANGED <<pc, inputVars, inputBorrow, nControllers, issued, given,
                   hasScene, music, info, stepVars>>

(***************************************************************************)
(* Registration of bindings before the loop starts.                        *)
(***************************************************************************)
Alternatives ==
    { Key(<<>>), Key(<<"W">>), Key(<<"Up", "LShift">>),
      MouseButton(<<"Left">>), MousePosition }
    \cup { Gamepad(f, c) :
             f \in { FButton(<<"A", "B">>), FAxis("LeftX"),
                     FStick("LeftX", "LeftY") },
             c \in { {}, {0} } }

Bindings == SeqsUpTo(Alternatives, MaxAlts)

AddUser ==
    /\ pc = "setup"
    /\ Len(users) < 1
    /\ users' = Append(users, <<>>)
    /\ UNCHANGED <<pc, commands, inputSet, inputBorrow, nControllers, storeVars,
                   hasScene, music, info, stepVars>>

\* input.add_action(user, name, bindings, shape)
AddAction(Names, Bnds, Shps) ==
    /\ pc = "setup"
    /\ \E user \in 0..(Len(users) - 1), name \in Names,
          cmds \in Bnds, shape \in Shps :
         /\ \A i \in 1..Len(users[user + 1]) : users[user + 1][i].name # name
         /\ users' = [users EXCEPT ![user + 1] = Append(@, NewAction(name, shape))]
         /\ commands' = Append(commands, Entry(user, Len(users[user + 1]), cmds))
    /\ UNCHANGED <<pc, inputSet, inputBorrow, nControllers, storeVars, hasScene,
                   music, info, stepVars>>

\* InputMap.users and InputMap.commands are public fields: the embedding
\* program can hold an entry whose action index its user does not have
StaleIndex == Cardinality(ActionNames)

AddEntry(Bnds) ==
    /\ pc = "setup"
    /\ Len(commands) < Cardinality(ActionNames)
    /\ \E user \in 0..(Len(users) - 1), cmds \in Bnds :
         commands' = Append(commands, Entry(user, StaleIndex, cmds))
    /\ UNCHANGED <<pc, users, inputSet, inputBorrow, nControllers, storeVars,
                   hasScene, music, info, stepVars>>

AddScene ==
    /\ pc = "setup"
    /\ ~hasScene
    /\ hasScene' = TRUE
    /\ UNCHANGED <<pc, inputVars, inputBorrow, nControllers, storeVars, music,
                   info, stepVars>>

\* SDLApp::new with the opened controllers, then gameloop.  The InputMap is
\* shared (Rc<RefCell<..>>): whoever built it may still hold a borrow of it.
SDLAppNew(Counts, Borrows) ==
    /\ pc = "setup"
    /\ \E n \in Counts : nControllers' = n
    /\ \E b \in Borrows : inputBorrow' = b
    /\ pc' = "poll"
    /\ lastCall' = NoCall
    /\ UNCHANGED <<inputVars, storage, issued, given, hasScene, music, info,
                   stepVars>>

(***************************************************************************)
(* processed_events                                                        *)
(***************************************************************************)
EventSeqs == SeqsUpTo({"Quit", "Other"}, MaxEvents)

\* for event in events.poll_iter(): TRUE when the loop returns Ok(false)
RECURSIVE poll_iter(_, _)
poll_iter(events, i) ==
    IF i > Len(events)
    THEN FALSE
    ELSE IF events[i] = "Quit" THEN TRUE ELSE poll_iter(events, i + 1)

\* a Quit noticed only after the actions have been resolved
PollQuitAfterResolve ==
    LET r == EntriesLoop(1, snap,
                [users |-> users, passed |-> <<>>, log |-> <<>>, panic |-> FALSE])
    IN  /\ pc' = "done"
        /\ result' = "Ok(false)"
        /\ users' = r.users
        /\ passed' = r.passed
        /\ log' = r.log
        /\ UNCHANGED <<commands, inputSet, snap>>

\* the event loop met Event::Quit: return Ok(false)
PollQuit ==
    /\ pc' = "done"
    /\ result' = "Ok(false)"
    /\ passed' = <<>>
    /\ log' = <<>>
    /\ UNCHANGED <<inputVars, snap>>

\* no Quit among the polled events: sample the devices and resolve
PollResolve(Snaps) ==
    /\ \E s \in Snaps :
         /\ snap' = s
         /\ IF inputBorrow # "free"
            THEN /\ pc' = "aborted"
                 /\ result' = "panic"
                 /\ passed' = <<>>
                 /\ log' = <<>>
                 /\ UNCHANGED <<users, inputSet>>
            ELSE LET r == EntriesLoop(1, s,
                            [users |-> users, passed |-> <<>>,
                             log |-> <<>>, panic |-> FALSE])
                 IN  /\ users' = r.users
                     /\ passed' = r.passed
                     /\ log' = r.log
                     /\ pc' = IF r.panic THEN "aborted" ELSE "update"
                     /\ result' = IF r.panic THEN "panic" ELSE "Ok(true)"
                     /\ inputSet' = IF r.panic THEN inputSet ELSE TRUE
    /\ UNCHANGED commands

ProcessedEvents(Events, Snaps) ==
    /\ pc = "poll"
    /\ \E events \in Events :
         /\ polled' = events
         /\ IF poll_iter(events, 1) THEN PollQuit ELSE PollResolve(Snaps)
    /\ step' = "poll"
    /\ before' = users
    /\ instrs' = <<>>
    /\ held' = {}
    /\ backendOk' = TRUE
    /\ executed' = <<>>
    /\ presented' = FALSE
    /\ UNCHANGED <<inputBorrow, nControllers, storeVars, hasScene, music, info,
                   axisCalls>>

(***************************************************************************)
(* Borrows of the Rc<RefCell<..>> resources held by collaborators.         *)
(***************************************************************************)
Loaded(st) ==
    { <<k, t>> \in Kinds \X (0..(MaxSlots + 1)) :
        t < Len(st[k].slots) /\ st[k].slots[t + 1].loaded }

\* what a collaborator may hold while a step runs: nothing, or one of the
\* loaded resources the step can reach, shared or mutably
HeldSets(kinds) ==
    {{}} \cup { {[res |-> r, mode |-> m]} :
                  r \in {x \in Loaded(storage) : x[1] \in kinds},
                  m \in {"shared", "mut"} }

ModeOf(h, kind, ticket) ==
    IF \E a \in h : a.res = <<kind, ticket>>
    THEN (CHOOSE a \in h : a.res = <<kind, ticket>>).mode
    ELSE "free"

(***************************************************************************)
(* play_music, play_sound.  acc carries the mixer calls made, the log,     *)
(* whether music plays and whether a RefCell borrow panicked.  A mixer     *)
(* call that returns Err is logged by the same arm and changes nothing     *)
(* else; `executed` records the call whatever it returned, and music that  *)
(* failed to start is the case of music that has already stopped.          *)
(***************************************************************************)
Played(op, kind, ticket, key, volumeSet) ==
    [op |-> op, kind |-> kind, ticket |-> ticket, key |-> key,
     volumeSet |-> volumeSet]

play_music(ticket, h, acc) ==
    LET m == get_by_ticket(storage["Music"], ticket)
    IN  IF ~m.ok
        THEN [acc EXCEPT !.log = Append(@, m.err)]
        ELSE IF ModeOf(h, "Music", ticket) = "mut"
        THEN [acc EXCEPT !.panic = TRUE]
        ELSE [acc EXCEPT
                !.executed = Append(@, Played("PlayMusic", "Music", ticket, m.key, TRUE)),
                !.music = TRUE]

\* a failing lookup that ends the batch instead of being logged
play_soundAborting(ticket, h, acc) ==
    LET s == get_by_ticket(storage["Sound"], ticket)
    IN  IF ~s.ok
        THEN [acc EXCEPT !.panic = TRUE]
        ELSE LET free == ModeOf(h, "Sound", ticket) = "free"
                 warned == IF free THEN acc.log
                           ELSE Append(acc.log, "Cannot set volume")
             IN  IF ModeOf(h, "Sound", ticket) = "mut"
                 THEN [acc EXCEPT !.log = warned, !.panic = TRUE]
                 ELSE [acc EXCEPT
                         !.log = warned,
                         !.executed = Append(@, Played("PlaySound", "Sound", ticket, s.key, free))]

play_sound(ticket, h, acc) ==
    LET s == get_by_ticket(storage["Sound"], ticket)
    IN  IF ~s.ok
        THEN [acc EXCEPT !.log = Append(@, s.err)]
        ELSE LET free == ModeOf(h, "Sound", ticket) = "free"
                 warned == IF free THEN acc.log
                           ELSE Append(acc.log, "Cannot set volume")
             IN  IF ModeOf(h, "Sound", ticket) = "mut"
                 THEN [acc EXCEPT !.log = warned, !.panic = TRUE]
                 ELSE [acc EXCEPT
                         !.log = warned,
                         !.executed = Append(@, Played("PlaySound", "Sound", ticket, s.key, free))]

PlayMusic(t) == [op |-> "PlayMusic", ticket |-> t]
PlaySound(t) == [op |-> "PlaySound", ticket |-> t]

\* for instruction in v.iter()
RECURSIVE InstructionLoop(_, _, _, _)
InstructionLoop(v, i, h, acc) ==
    IF i > Len(v) \/ acc.panic
    THEN acc
    ELSE InstructionLoop(v, i + 1, h,
            IF v[i].op = "PlayMusic"
            THEN play_music(v[i].ticket, h, acc)
            ELSE play_sound(v[i].ticket, h, acc))

\* tickets a scene can hold: those some store issued to it
SceneTickets == { x[2] : x \in issued }

UpdateBatches ==
    SeqsUpTo({PlayMusic(t) : t \in SceneTickets}
                \cup {PlaySound(t) : t \in SceneTickets}, MaxBatch)

(***************************************************************************)
(* update                                                                  *)
(***************************************************************************)
\* the list never cleared: this frame's entry is pushed after the old ones
prepare_infoNoClear(playing) ==
    IF ~playing THEN Append(info, "MusicStopped") ELSE info

\* prepare_info
prepare_info(playing) == IF ~playing THEN <<"MusicStopped">> ELSE <<>>

\* what self.stage.update returns: the batch of the scenes, or the error of
\* a stage without scenes
StageUpdateResults ==
    IF hasScene
    THEN { [ok |-> TRUE, v |-> v] : v \in UpdateBatches }
    ELSE { [ok |-> FALSE, err |-> "NoScenesToUpdate"] }

\* a stage error treated as fatal
update_matchFatal(res, h, playing) ==
    IF res.ok
    THEN InstructionLoop(res.v, 1, h,
            [executed |-> <<>>, log |-> <<>>, music |-> playing, panic |-> FALSE])
    ELSE [executed |-> <<>>, log |-> <<res.err>>, music |-> playing,
          panic |-> TRUE]

\* match self.stage.update(&update, delta)
update_match(res, h, playing) ==
    IF res.ok
    THEN InstructionLoop(res.v, 1, h,
            [executed |-> <<>>, log |-> <<>>, music |-> playing, panic |-> FALSE])
    ELSE [executed |-> <<>>, log |-> <<res.err>>, music |-> playing,
          panic |-> FALSE]

Update ==
    /\ pc = "update"
    /\ \E playing \in (IF music THEN BOOLEAN ELSE {FALSE}),
          res \in StageUpdateResults :
         \E h \in (IF res.ok THEN HeldSets({"Music", "Sound"}) ELSE {{}}) :
            LET r == update_match(res, h, playing)
                \* self.input.borrow_mut().updated()
                panic == r.panic \/ inputBorrow # "free"
            IN  /\ info' = prepare_info(playing)
                /\ instrs' = IF res.ok THEN res.v ELSE <<>>
                /\ held' = h
                /\ backendOk' = TRUE
                /\ executed' = r.executed
                /\ log' = r.log
                /\ music' = r.music
                /\ inputSet' = IF panic THEN inputSet ELSE FALSE
                /\ pc' = IF panic THEN "aborted" ELSE "draw"
    /\ step' = "update"
    /\ presented' = FALSE
    /\ UNCHANGED <<users, commands, inputBorrow, nControllers, storeVars,
                   hasScene, polled, snap, passed, before, result, axisCalls>>

(***************************************************************************)
(* draw                                                                    *)
(***************************************************************************)
DrawTexture(t) == [op |-> "Texture", ticket |-> t]
DrawText(t) == [op |-> "Text", ticket |-> t]

DrawBatches ==
    SeqsUpTo({DrawTexture(t) : t \in SceneTickets}
                \cup {DrawText(t) : t \in SceneTickets}, MaxBatch)

\* one draw instruction; `returned` records the early return out of draw
draw_one(d, h, ok, acc) ==
    IF d.op = "Texture"
    THEN LET t == get_by_ticket(storage["Texture"], d.ticket)
         IN  IF ~t.ok
             THEN [acc EXCEPT !.log = Append(@, t.err), !.returned = TRUE]
             ELSE IF ModeOf(h, "Texture", d.ticket) = "mut"
             THEN [acc EXCEPT !.panic = TRUE]
             ELSE [acc EXCEPT !.executed =
                     Append(@, Played("Texture", "Texture", d.ticket, t.key, FALSE))]
    ELSE LET f == get_by_ticket(storage["Font"], d.ticket)
         IN  IF ~f.ok
             THEN [acc EXCEPT !.log = Append(@, f.err), !.returned = TRUE]
             ELSE IF ModeOf(h, "Font", d.ticket) = "mut"
             THEN [acc EXCEPT !.panic = TRUE]
             ELSE IF ~ok
             THEN [acc EXCEPT !.log = Append(@, "Error rendering font"),
                              !.returned = TRUE]
             ELSE [acc EXCEPT !.executed =
                     Append(@, Played("Text", "Font", d.ticket, f.key, FALSE))]

RECURSIVE DrawLoop(_, _, _, _, _)
DrawLoop(b, i, h, ok, acc) ==
    IF i > Len(b) \/ acc.panic \/ acc.returned
    THEN acc
    ELSE DrawLoop(b, i + 1, h, ok, draw_one(b[i], h, ok, acc))

Draw ==
    /\ pc = "draw"
    /\ IF ~hasScene
       THEN /\ instrs' = <<>>
            /\ held' = {}
            /\ backendOk' = TRUE
            /\ executed' = <<>>
            /\ log' = <<"NoScenesToDraw">>
            /\ presented' = FALSE
            /\ pc' = "poll"
       ELSE \E b \in DrawBatches, h \in HeldSets({"Texture", "Font"}),
               ok \in BOOLEAN :
              LET r == DrawLoop(b, 1, h, ok,
                         [executed |-> <<>>, log |-> <<>>,
                          returned |-> FALSE, panic |-> FALSE])
              IN  /\ ok \/ \E i \in 1..Len(b) : b[i].op = "Text"
                  /\ instrs' = b
                  /\ held' = h
                  /\ backendOk' = ok
                  /\ executed' = r.executed
                  /\ log' = r.log
                  /\ presented' = (~r.returned /\ ~r.panic)
                  /\ pc' = IF r.panic THEN "aborted" ELSE "poll"
    /\ step' = "draw"
    /\ UNCHANGED <<inputVars, inputBorrow, nControllers, storeVars, hasScene,
                   music, info, polled, snap, passed, before, result,
                   axisCalls>>

(***************************************************************************)
(* Specifications.                                                         *)
(***************************************************************************)
Init ==
    /\ pc = "setup"
    /\ users = <<>>
    /\ commands = <<>>
    /\ inputSet = FALSE
    /\ inputBorrow = "free"
    /\ nControllers = 0
    /\ storage = [k \in Kinds |-> EmptyStore]
    /\ issued = {}
    /\ given = {}
    /\ lastCall = NoCall
    /\ hasScene = FALSE
    /\ music = FALSE
    /\ info = <<>>
    /\ step = "none"
    /\ polled = <<>>
    /\ snap = NoSnapshot
    /\ passed = <<>>
    /\ before = <<>>
    /\ instrs = <<>>
    /\ held = {}
    /\ backendOk = TRUE
    /\ executed = <<>>
    /\ presented = FALSE
    /\ log = <<>>
    /\ result = "none"
    /\ axisCalls = <<>>

\* the frame loop over the resource directory and the scenes' instructions
IdleSnapshots == { [NoSnapshot EXCEPT !.pos = p] : p \in MousePoints }

Next ==
    \/ GetTicketWithKey(StorageTypes, {"a"})
    \/ Load({"a"})
    \/ AddScene
    \/ SDLAppNew({0}, {"free", "held"})
    \/ ProcessedEvents({<<>>, <<"Quit">>}, IdleSnapshots)
    \/ Update
    \/ Draw

Spec == Init /\ [][Next]_vars

\* the frame loop over the bindings of the examples
ExampleBindings ==
    { <<Key(<<"W">>), Key(<<"Up", "LShift">>)>>, <<MousePosition>>, <<>> }

LoopSnapshots ==
    [ keys : KeyStates, mouse : {{}}, pos : MousePoints, pads : {<<>>} ]

NextLoop ==
    \/ AddUser
    \/ AddAction(ActionNames, ExampleBindings, Shapes)
    \/ AddScene
    \/ SDLAppNew({0}, {"free"})
    \/ ProcessedEvents(EventSeqs, LoopSnapshots)
    \/ Update
    \/ Draw

SpecLoop == Init /\ [][NextLoop]_vars

\* the resolver on every binding list and every device snapshot
NextInput ==
    \/ AddUser
    \/ AddAction({"Look"}, Bindings, {Analog(F32(0), F32(0))})
    \/ SDLAppNew(0..MaxControllers, {"free"})
    \/ ProcessedEvents({<<>>, <<"Quit">>}, Snapshots(nControllers))

SpecInput == Init /\ [][NextInput]_vars

\* the frame loop over a binding map that holds stale entries
NextStale ==
    \/ AddUser
    \/ AddAction(ActionNames, ExampleBindings, {Digital("Up")})
    \/ AddEntry(ExampleBindings)
    \/ SDLAppNew({0}, {"free"})
    \/ ProcessedEvents({<<>>, <<"Quit">>}, LoopSnapshots)
    \/ Update
    \/ Draw

SpecStale == Init /\ [][NextStale]_vars

\* the resolver on bindings that hold alternatives with an empty list
EmptyAlternatives ==
    { Key(<<>>), MouseButton(<<>>), Gamepad(FButton(<<>>), {}),
      Gamepad(FButton(<<>>), {0}), Key(<<"W">>), MousePosition,
      Gamepad(FAxis("LeftX"), {}) }

EmptyBindings == SeqsUpTo(EmptyAlternatives, MaxAlts)

NextEmpty ==
    \/ AddUser
    \/ AddAction({"Forward"}, EmptyBindings, {Digital("Up")})
    \/ SDLAppNew(0..MaxControllers, {"free"})
    \/ ProcessedEvents({<<>>, <<"Quit">>}, Snapshots(nControllers))

SpecEmpty == Init /\ [][NextEmpty]_vars

\* translate_axis on raw readings of a controller axis (i16)
AxisSamples ==
    {-32768, -32767, -16384, -50, -1, 0, 1, 50, 16383, 32766, 32767}

TranslateAxis(Raws) ==
    /\ \E raw \in Raws :
         LET call == [raw |-> raw, out |-> translate_axis(raw)]
         IN  axisCalls' = IF Len(axisCalls) < 2
                          THEN Append(axisCalls, call)
                          ELSE <<axisCalls[2], call>>
    /\ UNCHANGED <<pc, inputVars, inputBorrow, nControllers, storeVars,
                   hasScene, music, info, step, polled, snap, passed, before,
                   instrs, held, backendOk, executed, presented, log, result>>

NextAxis == TranslateAxis(AxisSamples)

SpecAxis == Init /\ [][NextAxis]_vars

\* the resource directory before the loop starts
NextStore ==
    \/ GetTicketWithKey(StorageTypes, ResourceKeys)
    \/ Load(ResourceKeys)
    \/ Lock

SpecStore == Init /\ [][NextStore]_vars

(***************************************************************************)
(* What the documentation means by an alternative being satisfied by a     *)
(* snapshot, and the value a satisfied alternative stands for.             *)
(***************************************************************************)
\* the devices an alternative reads, as 1-based positions in s.pads
Devices(cmd, s) ==
    IF cmd.controller = {}
    THEN 1..Len(s.pads)
    ELSE { i + 1 : i \in cmd.controller } \cap (1..Len(s.pads))

Threshold(cmd) == IF cmd.controller = {} THEN DEADZONE_INV ELSE EPSILON_INV

FeatureActive(f, pad, inv) ==
    CASE f.f = "Button" -> \A i \in 1..Len(f.list) : f.list[i] \in pad.buttons
      [] f.f = "Axis" -> AbsGe(translate_axis(pad.axis[f.axis]), inv)
      [] f.f = "Stick" -> \/ AbsGe(translate_axis(pad.axis[f.x]), inv)
                          \/ AbsGe(translate_axis(pad.axis[f.y]), inv)

FeatureValue(f, pad) ==
    CASE f.f = "Button" -> Digital("Down")
      [] f.f = "Axis" -> Axis(translate_axis(pad.axis[f.axis]))
      [] f.f = "Stick" -> Analog(translate_axis(pad.axis[f.x]),
                                 translate_axis(pad.axis[f.y]))

Satisfied(cmd, s) ==
    CASE cmd.kind = "Key" -> \A i \in 1..Len(cmd.list) : cmd.list[i] \in s.keys
      [] cmd.kind = "MouseButton" ->
            \A i \in 1..Len(cmd.list) : cmd.list[i] \in s.mouse
      [] cmd.kind = "MousePosition" -> TRUE
      [] cmd.kind = "Gamepad" ->
            \E d \in Devices(cmd, s) :
                FeatureActive(cmd.feature, s.pads[d], Threshold(cmd))

Implied(cmd, s) ==
    CASE cmd.kind = "Key" -> Digital("Down")
      [] cmd.kind = "MouseButton" -> Digital("Down")
      [] cmd.kind = "MousePosition" -> Analog(F32(s.pos[1]), F32(s.pos[2]))
      [] cmd.kind = "Gamepad" ->
            LET on == { d \in Devices(cmd, s) :
                          FeatureActive(cmd.feature, s.pads[d], Threshold(cmd)) }
                first == CHOOSE d \in on : \A e \in on : d <= e
            IN  FeatureValue(cmd.feature, s.pads[first])

\* the alternatives of the entry behind the k-th update_action call
AlternativesOf(k) == commands[k].commands

\* positions of the alternatives that are not the mouse position
Deciding(cmds) == { i \in 1..Len(cmds) : cmds[i].kind # "MousePosition" }

FirstDeciding(cmds) ==
    CHOOSE i \in Deciding(cmds) : \A j \in Deciding(cmds) : i <= j

IsDigital(cmd) ==
    \/ cmd.kind \in {"Key", "MouseButton"}
    \/ cmd.kind = "Gamepad" /\ cmd.feature.f = "Button"

(***************************************************************************)
(* C2: an action is passed on as Down only if, in some digital alternative *)
(* of it, every listed key or button is pressed in the snapshot.           *)
(***************************************************************************)
C2_DownOnlyIfAllPressed ==
    \A k \in 1..Len(passed) :
        passed[k].value = Digital("Down")
        => \E i \in 1..Len(AlternativesOf(k)) :
              /\ IsDigital(AlternativesOf(k)[i])
              /\ Satisfied(AlternativesOf(k)[i], snap)

\* the declared shape of the action behind the k-th update_action call
ShapeOf(k) == users[passed[k].user + 1][passed[k].action + 1].shape

(***************************************************************************)
(* C3: when no alternative of an action is satisfied by the snapshot, the  *)
(* value passed to update_action is the neutral value of the action's      *)
(* declared shape.                                                         *)
(***************************************************************************)
C3_NeutralOfShape ==
    \A k \in 1..Len(passed) :
        (/\ passed[k].ok
         /\ \A i \in 1..Len(AlternativesOf(k)) :
               ~Satisfied(AlternativesOf(k)[i], snap))
        => passed[k].value = ShapeOf(k)

(***************************************************************************)
(* C5: no step of the per-frame path aborts the process.                   *)
(***************************************************************************)
C5_NoAbort == pc # "aborted"

\* a normalised reading is exactly neutral or outside the dead zone
Settled(v) == F32IsZero(v) \/ AbsGe(v, DEADZONE_INV)

(***************************************************************************)
(* C10: no value passed to update_action carries an axis reading from      *)
(* inside the dead zone: an Axis value, and each component of an Analog    *)
(* value, is exactly 0.0 or at least the dead-zone threshold in magnitude. *)
(***************************************************************************)
C10_DeadZoneIsNeutral ==
    \A k \in 1..Len(passed) :
        LET v == passed[k].value
        IN  /\ v.t = "Axis" => Settled(v.v)
            /\ v.t = "Analog" => Settled(v.x) /\ Settled(v.y)

(***************************************************************************)
(* What the documentation expects of one instruction of an update batch.   *)
(***************************************************************************)
StoreOf(op) ==
    CASE op = "PlayMusic" -> "Music"
      [] op = "PlaySound" -> "Sound"
      [] op = "Texture" -> "Texture"
      [] op = "Text" -> "Font"

\* the instruction's ticket names a loaded slot of the store its operation reads
Resolves(ins) ==
    LET slots == storage[StoreOf(ins.op)].slots
    IN  ins.ticket < Len(slots) /\ slots[ins.ticket + 1].loaded

ErrorOf(ins) ==
    IF ins.ticket >= Len(storage[StoreOf(ins.op)].slots)
    THEN "TicketNotFound"
    ELSE "ResourceNotLoaded"

\* the instruction reaches a resource a collaborator holds in the given modes
ReachesHeld(ins, modes) ==
    /\ Resolves(ins)
    /\ ModeOf(held, StoreOf(ins.op), ins.ticket) \in modes

\* the instructions before the first one that meets a mutably held resource
Cut(v) ==
    LET stops == { i \in 1..Len(v) : ReachesHeld(v[i], {"mut"}) }
    IN  IF stops = {} THEN v
        ELSE SubSeq(v, 1, (CHOOSE i \in stops : \A j \in stops : i <= j) - 1)

Fails(ins) == ~Resolves(ins)

IsTicketError(e) == e \in {"TicketNotFound", "ResourceNotLoaded"}

OpsOf(q) == [j \in 1..Len(q) |-> [op |-> q[j].op, ticket |-> q[j].ticket]]

ErrorsOf(q) == [j \in 1..Len(q) |-> ErrorOf(q[j])]

(***************************************************************************)
(* C4: in update, an instruction whose ticket does not resolve adds its    *)
(* error to the log and nothing else: the instructions of the batch that   *)
(* do resolve are executed, all of them and in batch order, one error is   *)
(* logged per failing instruction, and the step goes on to draw.  The one  *)
(* thing that ends a batch early is the borrow of C6, never a failing      *)
(* ticket.                                                                 *)
(***************************************************************************)
C4_FailingTicketOnlyDropsItself ==
    (step = "update" /\ hasScene)
    => /\ OpsOf(executed) = SelectSeq(Cut(instrs), Resolves)
       /\ SelectSeq(log, IsTicketError) = ErrorsOf(SelectSeq(Cut(instrs), Fails))
       /\ (pc = "draw") <=> (Cut(instrs) = instrs)

\* a failing instruction first, a resolving one after it, and the second
\* one executed
C4_Witness ==
    /\ step = "update"
    /\ pc = "draw"
    /\ Len(instrs) = 2
    /\ Fails(instrs[1])
    /\ Resolves(instrs[2])
    /\ log # <<>>
    /\ OpsOf(executed) = <<instrs[2]>>

(***************************************************************************)
(* C6: when an instruction of update reaches a resource that a             *)
(* collaborator holds borrowed, the conflict is logged, nothing is played  *)
(* from that resource and the step does not crash.                         *)
(***************************************************************************)
C6_BorrowConflictRecoverable ==
    (/\ step = "update"
     /\ \E i \in 1..Len(instrs) : ReachesHeld(instrs[i], {"shared", "mut"}))
    => /\ pc # "aborted"
       /\ log # <<>>
       /\ \A j \in 1..Len(executed) :
             ModeOf(held, executed[j].kind, executed[j].ticket) = "free"

(***************************************************************************)
(* C8: an operation only ever resolves a ticket that the store it reads    *)
(* has issued.                                                             *)
(***************************************************************************)
C8_TicketOnlyForIssuingStore ==
    \A j \in 1..Len(executed) :
        <<executed[j].kind, executed[j].ticket>> \in issued

SawQuit(events) == \E i \in 1..Len(events) : events[i] = "Quit"

(***************************************************************************)
(* C7: a processed_events step that polled a Quit event returns Ok(false), *)
(* calls update_action for no action, leaves every action value as it was  *)
(* and ends the loop: nothing runs after it.                               *)
(***************************************************************************)
C7_QuitEndsLoop ==
    [][ /\ (pc = "poll" /\ SawQuit(polled'))
            => /\ result' = "Ok(false)"
               /\ passed' = <<>>
               /\ users' = users
               /\ pc' = "done"
        /\ pc # "done" ]_vars

\* the loop ended by a Quit polled after another event, with an action still
\* Down from the frame before
C7_Witness ==
    /\ pc = "done"
    /\ result = "Ok(false)"
    /\ polled = <<"Other", "Quit">>
    /\ \E u \in 1..Len(users) : \E a \in 1..Len(users[u]) :
          users[u][a].value = Digital("Down")

(***************************************************************************)
(* C9: a get_ticket_with_key(kind, key) call on one of the four kinds has  *)
(* the result and the effect of take_ticket(key) on the store of that kind *)
(* and leaves the other three stores as they were; on every other kind it  *)
(* returns UnknownStorage(kind) and changes no store.                      *)
(***************************************************************************)
C9_DispatchByKind ==
    [][ lastCall'.kind # "none"
        => IF lastCall'.kind \in Kinds
           THEN LET r == take_ticket(storage[lastCall'.kind], lastCall'.key)
                IN  /\ lastCall'.res = r.res
                    /\ storage'[lastCall'.kind] = r.store
                    /\ \A k \in Kinds \ {lastCall'.kind} :
                          storage'[k] = storage[k]
           ELSE /\ lastCall'.res = Err(<<"UnknownStorage", lastCall'.kind>>)
                /\ storage' = storage ]_vars

\* a font ticket taken while the texture store already has a slot
C9_Witness ==
    /\ lastCall.kind = "Font"
    /\ lastCall.res = Ok(0)
    /\ Len(storage["Font"].slots) = 1
    /\ Len(storage["Texture"].slots) = 1

\* comparisons of exact fractions with positive denominators
F32Le(v, w) == v[1] * w[2] <= w[1] * v[2]

F32Same(v, w) == v[1] * w[2] = w[1] * v[2]

Sign(n) == IF n > 0 THEN 1 ELSE IF n < 0 THEN -1 ELSE 0

(***************************************************************************)
(* C11: translate_axis maps every raw reading into [-1.0, 1.0]: 32767 to   *)
(* 1.0, -32768 to -1.0 and 0 to 0.0; the result has the sign of the        *)
(* reading, is the reading over 32767 when the reading is not negative and *)
(* the reading over 32768 when it is, and of two readings the larger never *)
(* gives the smaller result.                                               *)
(***************************************************************************)
C11_TranslateAxis ==
    /\ \A i \in 1..Len(axisCalls) :
          LET raw == axisCalls[i].raw
              out == axisCalls[i].out
          IN  /\ out[2] > 0
              /\ F32Le(F32(-1), out) /\ F32Le(out, F32(1))
              /\ raw = 32767 => F32Same(out, F32(1))
              /\ raw = -32768 => F32Same(out, F32(-1))
              /\ raw = 0 => F32Same(out, F32(0))
              /\ Sign(out[1]) = Sign(raw)
              /\ raw >= 0 => F32Same(out, <<raw, 32767>>)
              /\ raw < 0 => F32Same(out, <<raw, 32768>>)
    /\ \A i, j \in 1..Len(axisCalls) :
          axisCalls[i].raw <= axisCalls[j].raw
          => F32Le(axisCalls[i].out, axisCalls[j].out)

\* both ends of the range translated, one after the other
C11_Witness ==
    /\ Len(axisCalls) = 2
    /\ axisCalls[1].raw = -32768 /\ F32Same(axisCalls[1].out, F32(-1))
    /\ axisCalls[2].raw = 32767 /\ F32Same(axisCalls[2].out, F32(1))

\* the entry's action index exists for its user
IndexExists(e) == e.action_index < Len(users[e.user_index + 1])

\* the calls of a pass that reached the action at <<u, a>> (1-based)
CallsTo(calls, u, a) ==
    { k \in 1..Len(calls) :
        calls[k].ok /\ calls[k].user = u - 1 /\ calls[k].action = a - 1 }

Last(S) == CHOOSE k \in S : \A j \in S : j <= k

(***************************************************************************)
(* C12: in a frame without Quit, an entry whose action index its user does *)
(* not have makes update_action fail; the failure is logged once, every    *)
(* entry of the frame still gets its update_action call, each action holds *)
(* afterwards the value of the last successful call to it, or its old      *)
(* value when there was none, and processed_events returns Ok(true).       *)
(***************************************************************************)
C12_IndexErrorNotFatal ==
    [][ (pc = "poll" /\ ~SawQuit(polled'))
        => /\ result' = "Ok(true)"
           /\ Len(passed') = Len(commands)
           /\ \A k \in 1..Len(passed') :
                 /\ passed'[k].user = commands[k].user_index
                 /\ passed'[k].action = commands[k].action_index
                 /\ passed'[k].ok = IndexExists(commands[k])
           /\ Len(log') = Cardinality({ k \in 1..Len(commands) :
                                          ~IndexExists(commands[k]) })
           /\ \A i \in 1..Len(log') : log'[i] = "ActionIndexOutOfBounds"
           /\ Len(users') = Len(users)
           /\ \A u \in 1..Len(users) :
                 /\ Len(users'[u]) = Len(users[u])
                 /\ \A a \in 1..Len(users[u]) :
                       users'[u][a].value =
                         IF CallsTo(passed', u, a) = {}
                         THEN users[u][a].value
                         ELSE passed'[Last(CallsTo(passed', u, a))].value ]_vars

\* a failing entry first, then an entry that sets its action Down
C12_Witness ==
    /\ step = "poll"
    /\ result = "Ok(true)"
    /\ Len(passed) = 2
    /\ ~passed[1].ok
    /\ passed[2].ok
    /\ passed[2].value = Digital("Down")
    /\ users[passed[2].user + 1][passed[2].action + 1].value = Digital("Down")
    /\ log = <<"ActionIndexOutOfBounds">>

\* the bindings of "Forward" that are keys
ForwardKeys == <<Key(<<"W">>), Key(<<"Up", "LShift">>)>>

AllPressed(cmd, keys) == \A i \in 1..Len(cmd.list) : cmd.list[i] \in keys

(***************************************************************************)
(* C13: an action bound to [Key{W}, Key{Up, LShift}] is passed on and      *)
(* stored as Down when Up and LShift are held without W, and as Up when    *)
(* Up alone is held; in general an action bound to Key alternatives only   *)
(* is Down exactly when all scancodes of one of them are pressed, and Up   *)
(* otherwise.                                                              *)
(***************************************************************************)
C13_KeyConjunction ==
    \A k \in 1..Len(passed) :
        LET cmds == AlternativesOf(k)
            v == passed[k].value
        IN  /\ (cmds = ForwardKeys /\ snap.keys = {"Up", "LShift"})
                  => v = Digital("Down")
            /\ (cmds = ForwardKeys /\ snap.keys = {"Up"})
                  => v = Digital("Up")
            /\ (\A i \in 1..Len(cmds) : cmds[i].kind = "Key")
                  => v = IF \E i \in 1..Len(cmds) : AllPressed(cmds[i], snap.keys)
                         THEN Digital("Down")
                         ELSE Digital("Up")
            /\ (step = "poll" /\ passed[k].ok)
                  => users[passed[k].user + 1][passed[k].action + 1].value = v

\* Up and LShift held without W, and the action Down
C13_Witness ==
    /\ step = "poll"
    /\ snap.keys = {"Up", "LShift"}
    /\ \E k \in 1..Len(passed) :
          /\ AlternativesOf(k) = ForwardKeys
          /\ passed[k].value = Digital("Down")
          /\ users[passed[k].user + 1][passed[k].action + 1].value = Digital("Down")

\* the step is a get_ticket_with_key call on one of the four stores
TicketCall == lastCall'.kind \in Kinds

(***************************************************************************)
(* C14: on a locked store a take_ticket for a key that has no slot fails   *)
(* with AlreadyLocked and changes nothing; and no step, a load before or   *)
(* after lock included, moves, removes or unloads a slot: every ticket     *)
(* handed out still names the slot of its key.                             *)
(***************************************************************************)
C14_TicketsStayValid ==
    [][ /\ (/\ TicketCall
             /\ storage[lastCall'.kind].locked
             /\ ~HasKey(storage[lastCall'.kind], lastCall'.key))
            => /\ lastCall'.res = Err("AlreadyLocked")
               /\ storage' = storage
        /\ \A kind \in Kinds :
              /\ Len(storage'[kind].slots) >= Len(storage[kind].slots)
              /\ \A i \in 1..Len(storage[kind].slots) :
                    /\ storage'[kind].slots[i].key = storage[kind].slots[i].key
                    /\ storage[kind].slots[i].loaded
                          => storage'[kind].slots[i].loaded
        /\ \A g \in given' :
              /\ g[3] < Len(storage'[g[1]].slots)
              /\ storage'[g[1]].slots[g[3] + 1].key = g[2] ]_vars

\* a locked store refusing a new key while the ticket it gave out earlier
\* still names the loaded slot of its key
C14_Witness ==
    \E kind \in Kinds :
        /\ storage[kind].locked
        /\ <<kind, "a", 0>> \in given
        /\ Len(storage[kind].slots) = 1
        /\ storage[kind].slots[1] = [key |-> "a", loaded |-> TRUE]
        /\ lastCall = [kind |-> kind, key |-> "b", res |-> Err("AlreadyLocked")]

(***************************************************************************)
(* C15: all tickets returned for one key of one store are the same ticket. *)
(***************************************************************************)
C15_SameKeySameTicket ==
    \A g, h \in given : (g[1] = h[1] /\ g[2] = h[2]) => g[3] = h[3]

\* key "a" asked for again after key "b" got the next ticket
C15_Witness ==
    \E kind \in Kinds :
        /\ ~storage[kind].locked
        /\ {<<kind, "a", 0>>, <<kind, "b", 1>>} \subseteq given
        /\ lastCall = [kind |-> kind, key |-> "a", res |-> Ok(0)]

C17_NoScenesIsNoOp ==
    (step = "update" /\ ~hasScene)
    => /\ log = <<"NoScenesToUpdate">>
       /\ instrs = <<>>
       /\ executed = <<>>
       /\ held = {}
       /\ pc = "draw"

\* the update of a stage without scenes, with a loaded resource in a store
C17_Witness ==
    /\ step = "update"
    /\ ~hasScene
    /\ pc = "draw"
    /\ Loaded(storage) # {}
    /\ log = <<"NoScenesToUpdate">>

AnyDevice(cmd) == cmd.kind = "Gamepad" /\ cmd.controller = {}

\* the controllers, by list position, on which the feature passes the
\* any-device threshold
ControllersOn(cmd, s) ==
    { d \in 1..Len(s.pads) : FeatureActive(cmd.feature, s.pads[d], DEADZONE_INV) }

Lowest(S) == CHOOSE d \in S : \A e \in S : d <= e

(***************************************************************************)
(* C18: when the first alternative of an action is a Gamepad alternative   *)
(* without a device index, the value passed on is read, whole, from the    *)
(* first controller in list order that satisfies it; when no controller    *)
(* does, resolution goes on: the value is Up if there is no other          *)
(* alternative, the next alternative's value if that one is satisfied,     *)
(* and the pointer position if the next and last one is MousePosition.     *)
(***************************************************************************)
C18_FirstControllerWins ==
    \A k \in 1..Len(passed) :
        LET cmds == AlternativesOf(k)
            v == passed[k].value
        IN  (Len(cmds) >= 1 /\ AnyDevice(cmds[1]))
            => IF ControllersOn(cmds[1], snap) # {}
               THEN v = FeatureValue(cmds[1].feature,
                                     snap.pads[Lowest(ControllersOn(cmds[1], snap))])
               ELSE /\ Len(cmds) = 1 => v = Digital("Up")
                    /\ (/\ Len(cmds) >= 2
                         /\ cmds[2].kind # "MousePosition"
                         /\ Satisfied(cmds[2], snap))
                          => v = Implied(cmds[2], snap)
                    /\ (Len(cmds) = 2 /\ cmds[2].kind = "MousePosition")
                          => v = Implied(cmds[2], snap)

\* two controllers that both satisfy a stick alternative with different
\* readings, and the first one's reading passed on
C18_Witness ==
    \E k \in 1..Len(passed) :
        LET cmds == AlternativesOf(k)
        IN  /\ Len(cmds) >= 1
            /\ AnyDevice(cmds[1])
            /\ ControllersOn(cmds[1], snap) = {1, 2}
            /\ FeatureValue(cmds[1].feature, snap.pads[1])
                  # FeatureValue(cmds[1].feature, snap.pads[2])
            /\ passed[k].value = FeatureValue(cmds[1].feature, snap.pads[1])

\* the draw instruction can be rendered: its ticket resolves and, for text,
\* the font and texture backends succeed
Renders(ins) == Resolves(ins) /\ (ins.op = "Text" => backendOk)

(***************************************************************************)
(* C19: a draw on a stage with scenes renders, in order, every instruction *)
(* that can be rendered, skipping only the ones that cannot, and presents  *)
(* the frame.                                                              *)
(***************************************************************************)
C19_DrawSkipsOnlyFailing ==
    (step = "draw" /\ hasScene /\ held = {})
    => /\ presented
       /\ OpsOf(executed) = SelectSeq(instrs, Renders)

\* the calls of one processed_events: one per entry of input.commands, in the
\* order of the entries
OnePerEntry(calls) ==
    /\ Len(calls) = Len(commands)
    /\ \A k \in 1..Len(commands) :
         /\ calls[k].user = commands[k].user_index
         /\ calls[k].action = commands[k].action_index

(***************************************************************************)
(* C20: a processed_events that meets no Quit samples the devices and then *)
(* calls update_action exactly once for every flattened binding entry, in  *)
(* order, before update runs; update and draw make no update_action call   *)
(* and leave the action values alone; update runs only after such a        *)
(* processed_events, draw only after update, the next processed_events     *)
(* only after draw, and backend calls and the present happen only in       *)
(* update (after the scene update that returned them) and draw.            *)
(***************************************************************************)
C20_OnePassPerFrameInOrder ==
    [][ /\ (pc = "poll" /\ ~SawQuit(polled'))
           => /\ OnePerEntry(passed')
              /\ pc' = "update"
              /\ result' = "Ok(true)"
        /\ pc \in {"update", "draw"}
           => /\ users' = users
              /\ passed' = passed
              /\ commands' = commands
        /\ pc' = "update" => pc = "poll" /\ ~SawQuit(polled')
        /\ pc' = "draw" => pc = "update"
        /\ pc' = "poll" => pc \in {"setup", "draw"}
        /\ executed' # <<>> => pc \in {"update", "draw"}
        /\ pc = "update" => Len(executed') <= Len(instrs')
        /\ presented' => pc = "draw" /\ pc' = "poll"
      ]_vars

\* a frame has run to the end of its draw: its processed_events made one call
\* per entry, one of them with a pressed key, and the frame is presented
C20_Witness ==
    /\ step = "draw"
    /\ presented
    /\ inputSet = FALSE
    /\ result = "Ok(true)"
    /\ Len(commands) >= 2
    /\ OnePerEntry(passed)
    /\ \E k \in 1..Len(passed) : passed[k].value = Digital("Down")
    /\ \E u \in 1..Len(users) : \E a \in 1..Len(users[u]) :
          users[u][a].value = Digital("Down")

\* the alternative makes the resolver leave the 'commands loop: its condition
\* holds in the snapshot, and for the button feature of an explicit device it
\* is enough that the controller exists
Accepts(cmd, s) ==
    IF cmd.kind = "Gamepad" /\ cmd.controller # {} /\ cmd.feature.f = "Button"
    THEN Devices(cmd, s) # {}
    ELSE cmd.kind # "MousePosition" /\ Satisfied(cmd, s)

AcceptedIn(cmds, s) == { i \in 1..Len(cmds) : Accepts(cmds[i], s) }

MouseIn(cmds) == { i \in 1..Len(cmds) : cmds[i].kind = "MousePosition" }

PointerOf(s) == Analog(F32(s.pos[1]), F32(s.pos[2]))

(***************************************************************************)
(* C21: an action with a MousePosition alternative is passed on as the     *)
(* pointer position, whatever that position is, exactly when none of its   *)
(* other alternatives is accepted; an accepted alternative before or after *)
(* the MousePosition replaces the pointer position by its own value.       *)
(***************************************************************************)
C21_MousePositionYields ==
    \A k \in 1..Len(passed) :
        LET cmds == AlternativesOf(k)
        IN  /\ (MouseIn(cmds) # {} /\ AcceptedIn(cmds, snap) = {})
                  => passed[k].value = PointerOf(snap)
            /\ AcceptedIn(cmds, snap) # {}
                  => /\ passed[k].value # PointerOf(snap)
                     /\ passed[k].value # Digital("Up")

\* a MousePosition followed by an accepted alternative: the action is passed
\* on with the later alternative's value, not with the pointer position
C21_Witness ==
    \E k \in 1..Len(passed) :
        LET cmds == AlternativesOf(k)
        IN  /\ Len(cmds) = 2
            /\ cmds[1].kind = "MousePosition"
            /\ Accepts(cmds[2], snap)
            /\ passed[k].value = Digital("Down")

\* the value the action behind a call held in the given user list
HeldIn(us, call) == us[call.user + 1][call.action + 1].value

(***************************************************************************)
(* C22: in a processed_events that meets no Quit, the value passed on for  *)
(* an entry is decided by the entry's own alternatives and the snapshot:   *)
(* entries with the same alternatives get the same value whatever the      *)
(* other entries are; a frame whose snapshot equals the previous frame's   *)
(* passes on the previous frame's values whatever the actions held in      *)
(* between; and an entry with no accepted alternative and no MousePosition *)
(* is passed on, and stored, as Digital Up whatever the action held.       *)
(***************************************************************************)
C22_Memoryless ==
    [][ (pc = "poll" /\ ~SawQuit(polled'))
        => \A k \in 1..Len(passed') :
             LET cmds == commands[k].commands
             IN  /\ \A j \in 1..Len(passed') :
                       commands[j].commands = cmds
                       => passed'[j].value = passed'[k].value
                 /\ \A j \in 1..Len(passed) :
                       (snap' = snap /\ commands[j].commands = cmds)
                       => passed[j].value = passed'[k].value
                 /\ (AcceptedIn(cmds, snap') = {} /\ MouseIn(cmds) = {})
                       => /\ passed'[k].value = Digital("Up")
                          /\ passed'[k].ok
                                => HeldIn(users', passed'[k]) = Digital("Up")
      ]_vars

\* an action that the frame before left Down, and that no alternative
\* accepts now, is passed on as Up while another action of this frame is not
C22_Witness ==
    /\ step = "poll"
    /\ result = "Ok(true)"
    /\ \E k, j \in 1..Len(passed) :
          /\ passed[k].ok
          /\ HeldIn(before, passed[k]) = Digital("Down")
          /\ AcceptedIn(AlternativesOf(k), snap) = {}
          /\ passed[k].value = Digital("Up")
          /\ HeldIn(users, passed[k]) = Digital("Up")
          /\ passed[j].value # Digital("Up")

(***************************************************************************)
(* C23: every update leaves the info list empty or holding the single      *)
(* entry MusicStopped, whatever it held before; it holds MusicStopped when *)
(* no music was playing as the update began (none had been started, or     *)
(* none plays after the update, or the update itself started it) and is    *)
(* empty only when music was playing; no other step changes the list.      *)
(***************************************************************************)
C23_InfoRebuilt ==
    [][ /\ pc = "update"
           => /\ info' \in {<<>>, <<"MusicStopped">>}
              /\ ~music => info' = <<"MusicStopped">>
              /\ ~music' => info' = <<"MusicStopped">>
              /\ info' = <<>> => music /\ music'
              /\ (info' = <<"MusicStopped">> /\ music')
                    => \E i \in 1..Len(executed') : executed'[i].op = "PlayMusic"
        /\ pc # "update" => info' = info
      ]_vars

\* an update that found music playing: the MusicStopped entry of the update
\* that started the music is gone
C23_Witness ==
    /\ step = "update"
    /\ music
    /\ info = <<>>

\* an alternative with an empty list of keys or buttons; for a gamepad one,
\* on a controller that exists
EmptyList(cmd, s) ==
    \/ cmd.kind \in {"Key", "MouseButton"} /\ cmd.list = <<>>
    \/ /\ cmd.kind = "Gamepad"
       /\ cmd.feature.f = "Button"
       /\ cmd.feature.list = <<>>
       /\ Devices(cmd, s) # {}

\* the alternative names a controller that is not connected
Aborts(cmd, s) ==
    cmd.kind = "Gamepad" /\ cmd.controller # {} /\ Devices(cmd, s) = {}

\* the resolver reaches the i-th alternative: none before it is accepted and
\* none before it names a missing controller
Reached(cmds, i, s) ==
    \A j \in 1..(i - 1) : ~Accepts(cmds[j], s) /\ ~Aborts(cmds[j], s)

(***************************************************************************)
(* C24 as stated: an action that has an alternative with an empty list is  *)
(* passed on as Down whatever the snapshot.                                *)
(***************************************************************************)
C24_EmptyListAlwaysDown ==
    \A k \in 1..Len(passed) :
        (\E i \in 1..Len(AlternativesOf(k)) :
            EmptyList(AlternativesOf(k)[i], snap))
        => passed[k].value = Digital("Down")

(***************************************************************************)
(* C24: an alternative with an empty list is accepted whenever the         *)
(* resolver reaches it: the action is then passed on as Down whatever the  *)
(* snapshot and whatever alternatives follow, and no alternative after it  *)
(* is evaluated, so none after it can abort the resolution.                *)
(***************************************************************************)
C24_EmptyListDownWhenReached ==
    /\ \A k \in 1..Len(passed) :
          LET cmds == AlternativesOf(k)
          IN  \A i \in 1..Len(cmds) :
                (EmptyList(cmds[i], snap) /\ Reached(cmds, i, snap))
                => passed[k].value = Digital("Down")
    /\ (step = "poll" /\ result = "panic" /\ inputBorrow = "free")
          => LET cmds == AlternativesOf(Len(passed) + 1)
             IN  \A i \in 1..Len(cmds) :
                   ~(EmptyList(cmds[i], snap) /\ Reached(cmds, i, snap))

\* an empty key list in front of a stick that is pushed: the action is Down
C24_Witness ==
    \E k \in 1..Len(passed) :
        LET cmds == AlternativesOf(k)
        IN  /\ Len(cmds) = 2
            /\ cmds[1] = Key(<<>>)
            /\ cmds[2].kind = "Gamepad"
            /\ cmds[2].feature.f = "Axis"
            /\ Satisfied(cmds[2], snap)
            /\ snap.keys = {}
            /\ passed[k].value = Digital("Down")
====
